---- MODULE Spec2Model ----
(* Model of server/handlers.go: the OAuth2 authorization-code callback,   *)
(* the two scope-gated pages and the home page, over one browser session. *)
EXTENDS Integers, Sequences, FiniteSets, TLC

VARIABLES
    session,     \* the session store's entries for the browser's session
    req,         \* per request slot: the handler's position and locals
    logins,      \* number of tokens the provider has issued so far
    lastStored,  \* history: access token stored by the latest successful callback
    gClaims,     \* scope gate probe: the claim set handed to hasScope
    gScopes,     \* scope gate probe: the required scopes handed to hasScope
    gOut         \* scope gate probe: "none" before the call, then "true"/"false"

vars == <<session, req, logins, lastStored, gClaims, gScopes, gOut>>

----------------------------------------------------------------------------
(* Bounds *)

MaxLogins == 2      \* tokens the provider issues in one run
MaxScopes == 2      \* longest scope list of a probed claim set
MaxRequired == 2    \* longest list of required scopes probed

----------------------------------------------------------------------------
(* Values *)

Reqs == {"r1", "r2"}

StatusOK == 200
StatusMovedPermanently == 301
StatusBadRequest == 400
StatusUnauthorized == 401
StatusInternalServerError == 500

NilVal == [tag |-> "nil"]

SessionKeys == {"id_token", "access_token", "profile"}

\* Scopes the callback asks the provider for
RequestedScopes == <<"openid", "test.access", "test.admin">>

ProtectedAccessPath == "/protected/access"

\* variant: another wording of the message
MissingCodeTextReworded == "authorization code missing"

MissingCodeText == "Did not receive authcode from IdP"

NotAuthorizedText == "YOU ARE NOT AUTHORIZED"

AccessPage == "You have successfully reached the Access Page"

AdminPage == "You have successfully reached the Admin Page"

HomePage == "Welcome to the OAuth Authcode Home Page"

\* the `error` and `code` query parameters a callback URL may carry
ErrorParams == {"", "access_denied"}

CodeParams == {"", "authcode"}

ExchangeErrors == {"oauth2: cannot fetch token: 401 Unauthorized",
                   "Post /oauth/token: dial tcp: connection refused"}

FetchErrors == {"Get /userinfo: dial tcp: connection refused"}

ReadErrors == {"unexpected EOF"}

UnmarshalError == "invalid character '<' looking for beginning of value"

----------------------------------------------------------------------------
(* Sequences of scopes *)

RECURSIVE SeqsUpTo(_, _)
SeqsUpTo(S, n) ==
    IF n = 0 THEN {<<>>}
    ELSE LET shorter == SeqsUpTo(S, n - 1)
         IN  shorter \cup {Append(s, x) : s \in {t \in shorter : Len(t) = n - 1}, x \in S}

ScopeNames == {RequestedScopes[i] : i \in DOMAIN RequestedScopes}

Range(s) == {s[i] : i \in DOMAIN s}

\* the sub-lists of a list, order kept
RECURSIVE SubLists(_)
SubLists(s) ==
    IF s = <<>> THEN {<<>>}
    ELSE LET rest == SubLists(Tail(s))
         IN  rest \cup {<<Head(s)>> \o t : t \in rest}

----------------------------------------------------------------------------
(* Tokens, bodies and responses *)

\* a bearer string of the provider: well-formed ones carry a scope claim
TokenString(x, name, ok, scope) ==
    [tag |-> "string", xid |-> x, name |-> name, parsable |-> ok, scope |-> scope]

\* the access tokens the provider may answer exchange number x with: a
\* well-formed token granting some of the requested scopes, or an opaque one
IssuedAccessTokens(x) ==
    {TokenString(x, "access", TRUE, sc) : sc \in SubLists(RequestedScopes)}
        \cup {TokenString(x, "access", FALSE, <<>>)}

\* the id_token extra field of the token response, absent or a string
IssuedIdTokens(x) == {NilVal, TokenString(x, "id", TRUE, <<>>)}

OAuthToken(access, id) == [tag |-> "token", AccessToken |-> access, id_token |-> id]

\* (*oauth2.Token).Extra("id_token")
Extra(token) == token.id_token

Bytes(ok, key, val) == [tag |-> "bytes", wellformed |-> ok, key |-> key, val |-> val]

ProfileBody(x) == Bytes(TRUE, "sub", x)

ErrorBody == Bytes(TRUE, "error", StatusUnauthorized)

HtmlBody == Bytes(FALSE, "", 0)

\* what the userinfo endpoint may answer for the token of exchange x; an HTTP
\* error status is an answer, not an error of client.Get
UserinfoResponses(x) ==
    {[tag |-> "response", StatusCode |-> StatusOK, Body |-> b] : b \in {ProfileBody(x), HtmlBody}}
        \cup {[tag |-> "response", StatusCode |-> StatusUnauthorized, Body |-> b] : b \in {ErrorBody, HtmlBody}}

\* json.Unmarshal(raw, &profile) into a map[string]interface{}
Unmarshal(raw) ==
    IF raw.wellformed
    THEN [err |-> "", value |-> [tag |-> "map", key |-> raw.key, val |-> raw.val]]
    ELSE [err |-> UnmarshalError, value |-> NilVal]

Response(status, body, location) ==
    [tag |-> "response", status |-> status, body |-> body, location |-> location]

\* http.Error: the message and a newline under the given status
HttpError(msg, code) == Response(code, <<msg, "\n">>, "")

\* http.Redirect
HttpRedirect(url, code) == Response(code, <<"Moved Permanently">>, url)

\* a write to a ResponseWriter that never had WriteHeader called
Write200(text) == Response(StatusOK, <<text>>, "")

\* a handler that panicked: net/http recovers it and sends no response
Panic == [tag |-> "panic", status |-> 0, body |-> <<>>, location |-> ""]

----------------------------------------------------------------------------
(* The session store *)

EmptySession == [k \in {} |-> NilVal]

\* session.Get(key): nil for a missing entry
Get(s, key) == IF key \in DOMAIN s THEN s[key] ELSE NilVal

\* session.Set(key, value)
Set(s, key, value) == [k \in DOMAIN s \cup {key} |-> IF k = key THEN value ELSE s[k]]

\* accessToken.(string): the type assertion holds for strings only
IsString(v) == v.tag = "string"

----------------------------------------------------------------------------
(* Claims parser and scope gate *)

ClaimSet(scope) == [scope |-> scope]

EmptyClaimSet == ClaimSet(<<>>)

\* parse(tokenString) -> (ClaimSet, error)
parseToken(s) ==
    IF s.parsable
    THEN [claims |-> ClaimSet(s.scope), err |-> ""]
    ELSE [claims |-> EmptyClaimSet, err |-> "ParseError"]

\* is scope x one of the required ones
RECURSIVE matchAny(_, _)
matchAny(x, required) ==
    IF required = <<>> THEN FALSE
    ELSE IF x = Head(required) THEN TRUE
    ELSE matchAny(x, Tail(required))

\* hasScope(claims, requiredScopes...) -> bool
RECURSIVE scanScopes(_, _)
scanScopes(scope, required) ==
    IF scope = <<>> THEN FALSE
    ELSE IF matchAny(Head(scope), required) THEN TRUE
    ELSE scanScopes(Tail(scope), required)

\* variant: only the first scope of the claim set is looked at
hasScopeFirstOnly(claims, required) ==
    claims.scope # <<>> /\ matchAny(Head(claims.scope), required)

hasScope(claims, required) == scanScopes(claims.scope, required)

\* variant: the access page asks for test.access only
AccessRequiredAccessOnly == <<"test.access">>

\* hasScope(token, "test.access", "test.admin")
AccessRequired == <<"test.access", "test.admin">>

\* hasScope(token, "test.admin")
AdminRequired == <<"test.admin">>

----------------------------------------------------------------------------
(* Requests *)

\* a slot no request occupies
IdleReq ==
    [pc |-> "idle", kind |-> "none", e |-> "", code |-> "",
     token |-> NilVal, resp |-> NilVal, raw |-> NilVal, profile |-> NilVal,
     err |-> "", exit |-> "none", log |-> <<>>, out |-> NilVal, before |-> EmptySession]

Kinds == {"home", "access", "admin", "callback"}

\* first statement of each handler
Entry(kind) == IF kind = "callback" THEN "cb_params" ELSE kind

\* variant: the two tokens are saved as soon as the exchange returned
SuccSavesTokensFirst(pc) ==
    CASE pc = "cb_params" -> "cb_exchange"
      [] pc = "cb_exchange" -> "cb_set_id_token"
      [] pc = "cb_set_id_token" -> "cb_set_access_token"
      [] pc = "cb_set_access_token" -> "cb_fetch"
      [] pc = "cb_fetch" -> "cb_read"
      [] pc = "cb_read" -> "cb_decode"
      [] pc = "cb_decode" -> "cb_set_profile"
      [] pc = "cb_set_profile" -> "cb_redirect"
      [] pc = "cb_redirect" -> "done"

\* variant: the access token is not saved
SuccSkipsAccessToken(pc) ==
    CASE pc = "cb_params" -> "cb_exchange"
      [] pc = "cb_exchange" -> "cb_fetch"
      [] pc = "cb_fetch" -> "cb_read"
      [] pc = "cb_read" -> "cb_decode"
      [] pc = "cb_decode" -> "cb_set_id_token"
      [] pc = "cb_set_id_token" -> "cb_set_profile"
      [] pc = "cb_set_access_token" -> "cb_set_profile"
      [] pc = "cb_set_profile" -> "cb_redirect"
      [] pc = "cb_redirect" -> "done"

\* the statement the callback goes to when the one at pc succeeded
Succ(pc) ==
    CASE pc = "cb_params" -> "cb_exchange"
      [] pc = "cb_exchange" -> "cb_fetch"
      [] pc = "cb_fetch" -> "cb_read"
      [] pc = "cb_read" -> "cb_decode"
      [] pc = "cb_decode" -> "cb_set_id_token"
      [] pc = "cb_set_id_token" -> "cb_set_access_token"
      [] pc = "cb_set_access_token" -> "cb_set_profile"
      [] pc = "cb_set_profile" -> "cb_redirect"
      [] pc = "cb_redirect" -> "done"

\* the handler of slot r writes its response and returns
Finish(r, exit, out) ==
    req' = [req EXCEPT ![r].pc = "done", ![r].exit = exit, ![r].out = out,
                       ![r].log = Append(@, "respond")]

\* the same, on a return taken because err is not nil
FinishErr(r, exit, err, out) ==
    req' = [req EXCEPT ![r].pc = "done", ![r].exit = exit, ![r].err = err,
                       ![r].out = out, ![r].log = Append(@, "respond")]

NoneRunning == \A q \in Reqs : req[q].pc = "idle"

Init ==
    /\ session = EmptySession
    /\ req = [r \in Reqs |-> IdleReq]
    /\ logins = 0
    /\ lastStored = NilVal
    /\ gClaims = EmptyClaimSet
    /\ gScopes = <<>>
    /\ gOut = "none"

\* a request arrives and is routed to its handler; found is what is kept
\* of the session as the request found it
Arrive(r, found) ==
    /\ req[r].pc = "idle"
    /\ \E kind \in Kinds, e \in ErrorParams, code \in CodeParams :
          /\ kind = "callback" => logins < MaxLogins
          /\ kind # "callback" => e = "" /\ code = ""
          /\ req' = [req EXCEPT ![r] = [IdleReq EXCEPT !.pc = Entry(kind), !.kind = kind,
                                                      !.e = e, !.code = code,
                                                      !.before = found]]
    /\ UNCHANGED <<session, logins, lastStored, gClaims, gScopes, gOut>>

\* with one request at a time, the session it found is remembered
Start(r) == Arrive(r, session)

\* with concurrent requests the session moves under a request, and nothing
\* is remembered of it
StartConc(r) == Arrive(r, EmptySession)

\* the response is delivered and the slot is free again
Return(r) ==
    /\ req[r].pc = "done"
    /\ req' = [req EXCEPT ![r] = IdleReq]
    /\ UNCHANGED <<session, logins, lastStored, gClaims, gScopes, gOut>>

homeHandler(r) ==
    /\ req[r].pc = "home"
    /\ Finish(r, "home", Write200(HomePage))
    /\ UNCHANGED <<session, logins, lastStored, gClaims, gScopes, gOut>>

\* variant: a token that does not parse is answered as a server error
gatePropagatesParseError(accessToken, required, page) ==
    IF ~IsString(accessToken)
    THEN [exit |-> "panic", out |-> Panic]
    ELSE LET parsed == parseToken(accessToken)
         IN  IF parsed.err # ""
             THEN [exit |-> "parse", out |-> HttpError(parsed.err, StatusInternalServerError)]
             ELSE IF hasScope(parsed.claims, required)
             THEN [exit |-> "page", out |-> Write200(page)]
             ELSE [exit |-> "denied", out |-> Write200(NotAuthorizedText)]

\* the body shared by the two protected pages
gate(accessToken, required, page) ==
    IF ~IsString(accessToken)
    THEN [exit |-> "panic", out |-> Panic]
    ELSE LET parsed == parseToken(accessToken)
         IN  IF hasScope(parsed.claims, required)
             THEN [exit |-> "page", out |-> Write200(page)]
             ELSE [exit |-> "denied", out |-> Write200(NotAuthorizedText)]

accessHandler(r) ==
    /\ req[r].pc = "access"
    /\ LET g == gate(Get(session, "access_token"), AccessRequired, AccessPage)
       IN  Finish(r, g.exit, g.out)
    /\ UNCHANGED <<session, logins, lastStored, gClaims, gScopes, gOut>>

adminHandler(r) ==
    /\ req[r].pc = "admin"
    /\ LET g == gate(Get(session, "access_token"), AdminRequired, AdminPage)
       IN  Finish(r, g.exit, g.out)
    /\ UNCHANGED <<session, logins, lastStored, gClaims, gScopes, gOut>>

----------------------------------------------------------------------------
(* callbackHandler, statement by statement *)

\* variant: a request that carries a code is taken as a success
checkParamsCodeFirst(e, code) ==
    IF Len(code) > 0 THEN "ok"
    ELSE IF Len(e) > 0 THEN "error_param"
    ELSE "missing_code"

\* the two checks on the query parameters: which return, if any, is taken
checkParams(e, code) ==
    IF Len(e) > 0 THEN "error_param"
    ELSE IF Len(code) = 0 THEN "missing_code"
    ELSE "ok"

ErrorParamResponse(e) == HttpError(e, StatusBadRequest)

\* variant: a missing code is answered as a client error
MissingCodeResponseBadRequest == HttpError(MissingCodeText, StatusBadRequest)

MissingCodeResponse == HttpError(MissingCodeText, StatusInternalServerError)

\* variant: the exchange error is replaced by a fixed text
ExchangeFailResponseGeneric(err) == HttpError("token exchange failed", StatusInternalServerError)

ExchangeFailResponse(err) == HttpError(err, StatusInternalServerError)

FetchFailResponse(err) == HttpError(err, StatusInternalServerError)

ReadFailResponse(err) == HttpError(err, StatusInternalServerError)

DecodeFailResponse(err) == HttpError(err, StatusInternalServerError)

\* variant: a temporary redirect
RedirectResponseFound == HttpRedirect(ProtectedAccessPath, 302)

RedirectResponse == HttpRedirect(ProtectedAccessPath, StatusMovedPermanently)

\* the values the three session.Set calls store
StoredIdToken(token) == Extra(token)

\* variant: the id token is saved under access_token
StoredAccessTokenIsIdToken(token) == Extra(token)

StoredAccessToken(token) == token.AccessToken

StoredProfile(profile) == profile

cbParams(r) ==
    /\ req[r].pc = "cb_params"
    /\ LET c == checkParams(req[r].e, req[r].code)
       IN  CASE c = "error_param" -> Finish(r, c, ErrorParamResponse(req[r].e))
             [] c = "missing_code" -> Finish(r, c, MissingCodeResponse)
             [] OTHER -> req' = [req EXCEPT ![r].pc = Succ("cb_params")]
    /\ UNCHANGED <<session, logins, lastStored, gClaims, gScopes, gOut>>

\* conf.Exchange(ctx, code): the provider's answer is not under our control
cbExchange(r) ==
    /\ req[r].pc = "cb_exchange"
    /\ \/ /\ \E err \in ExchangeErrors :
                req' = [req EXCEPT ![r].pc = "done", ![r].exit = "exchange", ![r].err = err,
                                   ![r].out = ExchangeFailResponse(err),
                                   ![r].log = @ \o <<"exchange", "respond">>]
          /\ UNCHANGED logins
       \/ /\ logins < MaxLogins
          /\ \E at \in IssuedAccessTokens(logins + 1), id \in IssuedIdTokens(logins + 1) :
                req' = [req EXCEPT ![r].pc = Succ("cb_exchange"),
                                   ![r].token = OAuthToken(at, id),
                                   ![r].log = Append(@, "exchange")]
          /\ logins' = logins + 1
    /\ UNCHANGED <<session, lastStored, gClaims, gScopes, gOut>>

\* client.Get(config.Domain + "/userinfo")
cbFetch(r) ==
    /\ req[r].pc = "cb_fetch"
    /\ \/ \E err \in FetchErrors :
             req' = [req EXCEPT ![r].pc = "done", ![r].exit = "fetch", ![r].err = err,
                                ![r].out = FetchFailResponse(err),
                                ![r].log = @ \o <<"fetch", "respond">>]
       \/ \E resp \in UserinfoResponses(req[r].token.AccessToken.xid) :
             req' = [req EXCEPT ![r].pc = Succ("cb_fetch"), ![r].resp = resp,
                                ![r].log = Append(@, "fetch")]
    /\ UNCHANGED <<session, logins, lastStored, gClaims, gScopes, gOut>>

\* ioutil.ReadAll(resp.Body)
cbRead(r) ==
    /\ req[r].pc = "cb_read"
    /\ \/ \E err \in ReadErrors : FinishErr(r, "read", err, ReadFailResponse(err))
       \/ req' = [req EXCEPT ![r].pc = Succ("cb_read"), ![r].raw = req[r].resp.Body]
    /\ UNCHANGED <<session, logins, lastStored, gClaims, gScopes, gOut>>

\* json.Unmarshal(raw, &profile)
cbDecode(r) ==
    /\ req[r].pc = "cb_decode"
    /\ LET d == Unmarshal(req[r].raw)
       IN  IF d.err # ""
           THEN FinishErr(r, "decode", d.err, DecodeFailResponse(d.err))
           ELSE req' = [req EXCEPT ![r].pc = Succ("cb_decode"), ![r].profile = d.value]
    /\ UNCHANGED <<session, logins, lastStored, gClaims, gScopes, gOut>>

\* session.Set("id_token", token.Extra("id_token"))
cbSetIdToken(r) ==
    /\ req[r].pc = "cb_set_id_token"
    /\ session' = Set(session, "id_token", StoredIdToken(req[r].token))
    /\ req' = [req EXCEPT ![r].pc = Succ("cb_set_id_token"),
                          ![r].log = Append(@, "set id_token")]
    /\ UNCHANGED <<logins, lastStored, gClaims, gScopes, gOut>>

\* session.Set("access_token", token.AccessToken)
cbSetAccessToken(r) ==
    /\ req[r].pc = "cb_set_access_token"
    /\ session' = Set(session, "access_token", StoredAccessToken(req[r].token))
    /\ req' = [req EXCEPT ![r].pc = Succ("cb_set_access_token"),
                          ![r].log = Append(@, "set access_token")]
    /\ UNCHANGED <<logins, lastStored, gClaims, gScopes, gOut>>

\* session.Set("profile", profile)
cbSetProfile(r) ==
    /\ req[r].pc = "cb_set_profile"
    /\ session' = Set(session, "profile", StoredProfile(req[r].profile))
    /\ req' = [req EXCEPT ![r].pc = Succ("cb_set_profile"),
                          ![r].log = Append(@, "set profile")]
    /\ UNCHANGED <<logins, lastStored, gClaims, gScopes, gOut>>

\* http.Redirect(w, r, "/protected/access", http.StatusMovedPermanently)
cbRedirect(r) ==
    /\ req[r].pc = "cb_redirect"
    /\ Finish(r, "redirect", RedirectResponse)
    /\ lastStored' = req[r].token.AccessToken
    /\ UNCHANGED <<session, logins, gClaims, gScopes, gOut>>

----------------------------------------------------------------------------
(* The server, one request at a time *)

Next ==
    \E r \in Reqs :
        \/ NoneRunning /\ Start(r)
        \/ homeHandler(r)
        \/ accessHandler(r)
        \/ adminHandler(r)
        \/ cbParams(r)
        \/ cbExchange(r)
        \/ cbFetch(r)
        \/ cbRead(r)
        \/ cbDecode(r)
        \/ cbSetIdToken(r)
        \/ cbSetAccessToken(r)
        \/ cbSetProfile(r)
        \/ cbRedirect(r)
        \/ Return(r)

Spec == Init /\ [][Next]_vars

----------------------------------------------------------------------------
(* The server with requests of one session handled concurrently: every *)
(* session.Get and session.Set is one step of the store                 *)

NextConc ==
    \E r \in Reqs :
        \/ StartConc(r)
        \/ homeHandler(r)
        \/ accessHandler(r)
        \/ adminHandler(r)
        \/ cbParams(r)
        \/ cbExchange(r)
        \/ cbFetch(r)
        \/ cbRead(r)
        \/ cbDecode(r)
        \/ cbSetIdToken(r)
        \/ cbSetAccessToken(r)
        \/ cbSetProfile(r)
        \/ cbRedirect(r)
        \/ Return(r)

SpecConc == Init /\ [][NextConc]_vars

----------------------------------------------------------------------------
(* The scope gate on its own, over all small claim sets and scope lists *)

\* scope strings to probe with: the requested ones and near misses
ProbeScopes == ScopeNames \cup {"Test.Admin"}

InitGate ==
    /\ session = EmptySession
    /\ req = [r \in Reqs |-> IdleReq]
    /\ logins = 0
    /\ lastStored = NilVal
    /\ gClaims \in {ClaimSet(sc) : sc \in SeqsUpTo(ProbeScopes, MaxScopes)}
    /\ gScopes \in SeqsUpTo(ProbeScopes, MaxRequired)
    /\ gOut = "none"

callHasScope ==
    /\ gOut = "none"
    /\ gOut' = IF hasScope(gClaims, gScopes) THEN "true" ELSE "false"
    /\ UNCHANGED <<session, req, logins, lastStored, gClaims, gScopes>>

NextGate == callHasScope

SpecGate == InitGate /\ [][NextGate]_vars

TypeOK ==
    /\ DOMAIN session \subseteq SessionKeys
    /\ logins \in 0..MaxLogins
    /\ \A r \in Reqs : req[r].kind \in Kinds \cup {"none"}

----------------------------------------------------------------------------
(* Properties of the callback *)

Done(r) == req[r].pc = "done"

Callback(r) == req[r].kind = "callback"

\* the entries of a log that call the provider or write the session
Effects(log) == {log[i] : i \in DOMAIN log} \ {"respond"}

Contains(body, text) == \E i \in DOMAIN body : body[i] = text

\* every step of the handshake went well for the callback in slot r
AllStepsSucceeded(r) ==
    /\ Callback(r)
    /\ req[r].e = "" /\ req[r].code # ""
    /\ req[r].token # NilVal
    /\ req[r].resp # NilVal /\ req[r].resp.StatusCode = StatusOK
    /\ req[r].profile # NilVal

\* C1: a callback with no error parameter, a code, and a successful exchange,
\* profile fetch and decode calls the token endpoint once, then the userinfo
\* endpoint once, then writes id_token, access_token and profile to the
\* session, and only then answers 301 with Location /protected/access.
C1_SuccessSequence ==
    \A r \in Reqs :
        AllStepsSucceeded(r) =>
            /\ \E n \in 0..6 :
                  SubSeq(<<"exchange", "fetch", "set id_token", "set access_token",
                           "set profile", "respond">>, 1, n) = req[r].log
            /\ Done(r) =>
                  /\ Len(req[r].log) = 6
                  /\ req[r].out.tag = "response"
                  /\ req[r].out.status = 301
                  /\ req[r].out.location = "/protected/access"
                  /\ DOMAIN session = SessionKeys
                  /\ session["id_token"] = req[r].token.id_token
                  /\ session["access_token"] = req[r].token.AccessToken
                  /\ session["profile"] = req[r].profile

C1_Witness ==
    \E r \in Reqs :
        /\ AllStepsSucceeded(r) /\ Done(r)
        /\ req[r].out.status = 301
        /\ req[r].token.id_token # NilVal

\* C2: a callback that ends with status 400 or 500 has written none of the
\* session keys: the session's entries are those the request found.
C2_NoPartialPersistence ==
    \A r \in Reqs :
        (Callback(r) /\ Done(r) /\ req[r].out.status \in {400, 500}) =>
            /\ Effects(req[r].log) \cap {"set id_token", "set access_token", "set profile"} = {}
            /\ session = req[r].before

C2_Witness ==
    \E r \in Reqs :
        /\ Callback(r) /\ Done(r) /\ req[r].out.status = 500
        /\ req[r].exit = "decode"
        /\ DOMAIN req[r].before = SessionKeys

\* C3: a callback whose error parameter is not empty, with or without a code,
\* is answered 400 with the error text in the body, and calls neither the
\* token endpoint nor the userinfo endpoint nor writes the session.
C3_ErrorParam ==
    \A r \in Reqs :
        (Callback(r) /\ req[r].e # "") =>
            /\ Effects(req[r].log) = {}
            /\ req[r].pc \in {"cb_params", "done"}
            /\ Done(r) =>
                  /\ req[r].out.tag = "response"
                  /\ req[r].out.status = 400
                  /\ Contains(req[r].out.body, req[r].e)
                  /\ session = req[r].before

C3_Witness ==
    \E r \in Reqs :
        /\ Callback(r) /\ Done(r)
        /\ req[r].e = "access_denied" /\ req[r].code # ""
        /\ req[r].out.status = 400

\* C4: a callback with an empty error and an empty code is answered 500 with
\* the missing-code message, and calls neither the token endpoint nor the
\* userinfo endpoint nor writes the session.
C4_MissingCode ==
    \A r \in Reqs :
        (Callback(r) /\ req[r].e = "" /\ req[r].code = "") =>
            /\ Effects(req[r].log) = {}
            /\ req[r].pc \in {"cb_params", "done"}
            /\ Done(r) =>
                  /\ req[r].out.tag = "response"
                  /\ req[r].out.status = 500
                  /\ Contains(req[r].out.body, MissingCodeText)
                  /\ session = req[r].before

C4_Witness ==
    \E r \in Reqs :
        /\ Callback(r) /\ Done(r)
        /\ req[r].e = "" /\ req[r].code = ""
        /\ req[r].exit = "missing_code"
        /\ DOMAIN req[r].before = SessionKeys

----------------------------------------------------------------------------
(* Properties of the protected pages *)

Protected(r) == req[r].kind \in {"access", "admin"}

Denied(out) == out = Write200(NotAuthorizedText)

\* C5: a request to a protected page on a session without an access_token
\* ends normally with a 200 response whose body is "YOU ARE NOT AUTHORIZED".
C5_MissingTokenDenied ==
    \A r \in Reqs :
        (Protected(r) /\ Done(r) /\ "access_token" \notin DOMAIN req[r].before) =>
            /\ req[r].out.tag = "response"
            /\ req[r].out.status = 200
            /\ req[r].out.body = <<"YOU ARE NOT AUTHORIZED">>

\* the scope set of the access token a session holds, when it parses
HoldsParsable(s) ==
    /\ "access_token" \in DOMAIN s
    /\ s["access_token"].tag = "string"
    /\ s["access_token"].parsable

ScopeSet(s) == Range(s["access_token"].scope)

\* would the handler of this kind serve its page on session s
Serves(kind, s) ==
    IF kind = "access" THEN gate(Get(s, "access_token"), AccessRequired, AccessPage).exit = "page"
    ELSE gate(Get(s, "access_token"), AdminRequired, AdminPage).exit = "page"

\* C6: on a session holding a parsable access token with scope set C, the
\* access page is served iff C has test.access or test.admin and the admin
\* page iff C has test.admin; every other answer is the 200 denial text, and
\* a session that is served the admin page is served the access page too.
C6_ScopeGate ==
    /\ \A r \in Reqs :
          (Protected(r) /\ Done(r) /\ HoldsParsable(req[r].before)) =>
              LET C == ScopeSet(req[r].before)
                  allowed == IF req[r].kind = "access"
                             THEN "test.access" \in C \/ "test.admin" \in C
                             ELSE "test.admin" \in C
                  page == IF req[r].kind = "access" THEN AccessPage ELSE AdminPage
              IN  /\ req[r].out.tag = "response" /\ req[r].out.status = 200
                  /\ allowed <=> req[r].out.body = <<page>>
                  /\ ~allowed <=> Denied(req[r].out)
    /\ HoldsParsable(session) => (Serves("admin", session) => Serves("access", session))

C6_Witness ==
    \E r \in Reqs :
        /\ req[r].kind = "access" /\ Done(r) /\ HoldsParsable(req[r].before)
        /\ ScopeSet(req[r].before) = {"openid", "test.admin"}
        /\ req[r].out.body = <<AccessPage>>

\* C7: hasScope(C, S...) is true iff some scope of C equals some scope of S,
\* and it is false for every S when C has no scopes.
C7_HasScopeIntersects ==
    gOut # "none" =>
        /\ gOut = "true" <=> Range(gClaims.scope) \cap Range(gScopes) # {}
        /\ gClaims.scope = <<>> => gOut = "false"

C7_Witness ==
    /\ gOut = "true"
    /\ Len(gClaims.scope) = 2 /\ Len(gScopes) = 2
    /\ gClaims.scope[1] \notin Range(gScopes)
    /\ gScopes[1] \notin Range(gClaims.scope)

\* C8: once a successful callback has stored an access token whose scopes
\* are exactly {test.access}, a following request on the session to
\* /protected/access is served the access page and one to /protected/admin
\* is denied.
C8_AccessOnlyLogin ==
    \A r \in Reqs :
        (/\ Protected(r) /\ Done(r)
         /\ lastStored # NilVal /\ lastStored.parsable
         /\ Range(lastStored.scope) = {"test.access"}) =>
            IF req[r].kind = "access"
            THEN req[r].out = Write200(AccessPage)
            ELSE Denied(req[r].out)

C8_Witness ==
    \E r \in Reqs :
        /\ req[r].kind = "admin" /\ Done(r)
        /\ lastStored # NilVal /\ lastStored.parsable
        /\ Range(lastStored.scope) = {"test.access"}
        /\ Denied(req[r].out)

----------------------------------------------------------------------------
(* Properties of the callback's failure returns *)

\* the userinfo call of the callback in slot r failed: no answer, or an
\* answer with an HTTP error status
FetchFailed(r) ==
    \/ req[r].exit = "fetch"
    \/ req[r].resp # NilVal /\ req[r].resp.StatusCode >= 400

\* C9: when the profile fetch fails, at transport level or with an HTTP
\* error status, the callback ends with status 500 and the session is not
\* written.
C9_FetchFailure ==
    \A r \in Reqs :
        (Callback(r) /\ Done(r) /\ FetchFailed(r)) =>
            /\ req[r].out.status = 500
            /\ session = req[r].before

\* C10: when the token exchange fails, the callback answers 500 with the
\* error text of the exchange, and neither fetches the profile nor writes
\* the session.
C10_ExchangeFailure ==
    \A r \in Reqs :
        (Callback(r) /\ Done(r) /\ req[r].exit = "exchange") =>
            /\ req[r].out.tag = "response"
            /\ req[r].out.status = 500
            /\ req[r].out.body[1] = req[r].err
            /\ req[r].log = <<"exchange", "respond">>
            /\ session = req[r].before

C10_Witness ==
    \E r \in Reqs :
        /\ Callback(r) /\ Done(r) /\ req[r].exit = "exchange"
        /\ req[r].err \in ExchangeErrors
        /\ req[r].out.status = 500
        /\ DOMAIN req[r].before = SessionKeys

----------------------------------------------------------------------------
(* Properties of the session across requests *)

\* the session holds an access token string that does not parse
HoldsMalformed(s) ==
    /\ "access_token" \in DOMAIN s
    /\ s["access_token"].tag = "string"
    /\ ~s["access_token"].parsable

\* C11: a request to a protected page on a session whose access_token is a
\* malformed token string is answered with the "YOU ARE NOT AUTHORIZED"
\* denial: not the page, not an HTTP error status, not a crash.
C11_MalformedTokenDenied ==
    \A r \in Reqs :
        (Protected(r) /\ Done(r) /\ HoldsMalformed(req[r].before)) =>
            /\ req[r].exit = "denied"
            /\ req[r].out.tag = "response"
            /\ req[r].out.status = 200
            /\ req[r].out.body = <<"YOU ARE NOT AUTHORIZED">>

C11_Witness ==
    \E r \in Reqs :
        /\ req[r].kind = "admin" /\ Done(r) /\ HoldsMalformed(req[r].before)
        /\ Denied(req[r].out)

\* the callback in slot r is at one of its three session.Set calls
AtSet(r) == req[r].pc \in {"cb_set_id_token", "cb_set_access_token", "cb_set_profile"}

\* the handler in slot r runs to its response in this step
Responds(r) == req[r].pc # "done" /\ req'[r].pc = "done"

\* C12: the session entries id_token, access_token and profile change only
\* in a callback that passed every step of the handshake; the home, access
\* and admin handlers leave them unchanged, page served or not.
C12_SessionFrame ==
    [][/\ session' # session =>
             \E r \in Reqs : AtSet(r) /\ AllStepsSucceeded(r)
       /\ \A r \in Reqs :
             (req[r].kind \in {"home", "access", "admin"} /\ Responds(r)) =>
                 session' = session]_vars

\* how often entry x occurs in a log
Count(log, x) == Cardinality({i \in DOMAIN log : log[i] = x})

\* a callback is between its first session.Set and its redirect
LoginInProgress == \E r \in Reqs : AtSet(r) \/ req[r].pc = "cb_redirect"

\* the answer of a protected page of this kind to access token t
PageAnswer(kind, t) ==
    IF kind = "access" THEN gate(t, AccessRequired, AccessPage).out
    ELSE gate(t, AdminRequired, AdminPage).out

First(log, x) ==
    IF \E i \in DOMAIN log : log[i] = x
    THEN CHOOSE i \in DOMAIN log : log[i] = x /\ \A j \in 1..(i - 1) : log[j] # x
    ELSE 0

\* C14: a callback calls the token endpoint at most once and the userinfo
\* endpoint at most once, the latter only after a successful exchange, and
\* ends with exactly one response of status 301, 400 or 500, 301 only when
\* every step succeeded.
C14_NoRetries ==
    \A r \in Reqs :
        Callback(r) =>
            /\ Count(req[r].log, "exchange") <= 1
            /\ Count(req[r].log, "fetch") <= 1
            /\ First(req[r].log, "fetch") > 0 =>
                  /\ First(req[r].log, "exchange") > 0
                  /\ First(req[r].log, "exchange") < First(req[r].log, "fetch")
                  /\ req[r].token # NilVal
            /\ Count(req[r].log, "respond") = (IF Done(r) THEN 1 ELSE 0)
            /\ Done(r) =>
                  /\ req[r].out.tag = "response"
                  /\ req[r].out.status \in {301, 400, 500}
                  /\ req[r].out.status = 301 => AllStepsSucceeded(r)

\* the callback in slot r was rejected for its absent or empty code
RejectedForCode(r) == Callback(r) /\ Done(r) /\ req[r].exit = "missing_code"

\* C15 as stated: the 500 response of a callback rejected for its absent or
\* empty code carries the message "authorization code missing".
C15_AsStated ==
    \A r \in Reqs :
        RejectedForCode(r) =>
            /\ req[r].out.status = 500
            /\ Contains(req[r].out.body, "authorization code missing")

\* C15: the 500 response of a callback rejected for its absent or empty code
\* carries the message "Did not receive authcode from IdP".
C15_MissingCodeMessage ==
    \A r \in Reqs :
        RejectedForCode(r) =>
            /\ req[r].code = ""
            /\ req[r].out.status = 500
            /\ req[r].out.body = <<"Did not receive authcode from IdP", "\n">>

C15_Witness ==
    \E r \in Reqs :
        /\ RejectedForCode(r)
        /\ req[r].out.status = 500
        /\ req[r].out.body[1] = "Did not receive authcode from IdP"

----------------------------------------------------------------------------
(* Properties of concurrent requests on one session *)

CallbackRunning == \E r \in Reqs : Callback(r) /\ req[r].pc \notin {"idle", "done"}

\* a callback has written some but not all of its three entries
HalfWritten == \E r \in Reqs : req[r].pc \in {"cb_set_access_token", "cb_set_profile"}

\* the entries of s that name an exchange name the one of its access token
SameExchange(s) ==
    /\ s["id_token"] # NilVal => s["id_token"].xid = s["access_token"].xid
    /\ s["profile"].key = "sub" => s["profile"].val = s["access_token"].xid

\* C16: whatever the interleaving of requests on one session, once no
\* callback is running the three entries come from the same exchange, and
\* no protected-page request reads the session while a login has written
\* only some of its three entries.
C16_AtomicLogin ==
    [][/\ (~CallbackRunning' /\ DOMAIN session' = SessionKeys) => SameExchange(session')
       /\ \A q \in Reqs : (Protected(q) /\ Responds(q)) => ~HalfWritten]_vars

====
